---- MODULE Spec2Model ----
(***************************************************************************)
(* The address-book assistant of src/module_1/main.py: field validation,   *)
(* records, the address book, the upcoming-birthday query, the command     *)
(* handlers wrapped by input_error and the command loop of main().         *)
(*                                                                         *)
(* A Python str is a sequence of Unicode code points.  A Python exception  *)
(* is a value [status |-> "raise", exc, msg]; a normal return is a value   *)
(* [status |-> "ok", ...].                                                 *)
(***************************************************************************)
EXTENDS Integers, Sequences, FiniteSets, TLC

VARIABLES records, pc, file, last

vars == <<records, pc, file, last>>

----------------------------------------------------------------------------
(* Bounds of the model *)

\* longest phone list a record grows to (add_contact is not offered beyond it)
MaxPhones == 2

\* number of consecutive calendar years date.today() is drawn from
NumYears == 2

----------------------------------------------------------------------------
(* Strings *)

\* the ranges of code points for which re's \d (str pattern, no re.ASCII)
\* matches: the Unicode decimal digits (category Nd)
DecimalRanges ==
  { <<48, 57>>, <<1632, 1641>>, <<1776, 1785>>, <<1984, 1993>>, <<2406, 2415>>,
    <<2534, 2543>>, <<2662, 2671>>, <<2790, 2799>>, <<2918, 2927>>,
    <<3046, 3055>>, <<3174, 3183>>, <<3302, 3311>>, <<3430, 3439>>,
    <<3558, 3567>>, <<3664, 3673>>, <<3792, 3801>>, <<3872, 3881>>,
    <<4160, 4169>>, <<4240, 4249>>, <<6112, 6121>>, <<6160, 6169>>,
    <<6470, 6479>>, <<6608, 6617>>, <<6784, 6793>>, <<6800, 6809>>,
    <<6992, 7001>>, <<7088, 7097>>, <<7232, 7241>>, <<7248, 7257>>,
    <<42528, 42537>>, <<43216, 43225>>, <<43264, 43273>>, <<43472, 43481>>,
    <<43504, 43513>>, <<43600, 43609>>, <<44016, 44025>>, <<65296, 65305>>,
    <<66720, 66729>>, <<68912, 68921>>, <<69734, 69743>>, <<69872, 69881>>,
    <<69942, 69951>>, <<70096, 70105>>, <<70384, 70393>>, <<70736, 70745>>,
    <<70864, 70873>>, <<71248, 71257>>, <<71360, 71369>>, <<71472, 71481>>,
    <<71904, 71913>>, <<72016, 72025>>, <<72784, 72793>>, <<73040, 73049>>,
    <<73120, 73129>>, <<92768, 92777>>, <<92864, 92873>>, <<93008, 93017>>,
    <<120782, 120831>>, <<123200, 123209>>, <<123632, 123641>>,
    <<125264, 125273>>, <<130032, 130041>> }

\* \d of the re module
IsDecimal(c) == \E r \in DecimalRanges : r[1] <= c /\ c <= r[2]

\* the characters 0-9 of ASCII
IsAsciiDigit(c) == 48 <= c /\ c <= 57

\* int() of one decimal digit character
DigitValue(c) ==
  LET r == CHOOSE r \in DecimalRanges : r[1] <= c /\ c <= r[2]
  IN  (c - r[1]) % 10

\* the separator of the format "%d.%m.%Y"
Dot == 46

----------------------------------------------------------------------------
(* Exceptions and results *)

Raise(exc, msg) == [status |-> "raise", exc |-> exc, msg |-> msg]

\* what a handler returns: a text and, where the text lists values, the values
Return(msg, data) == [status |-> "ok", caught |-> "", msg |-> msg, data |-> data]

MsgPhoneFormat == "Invalid phone number format. Use 10 digits."
MsgDateFormat == "Invalid date format. Use DD.MM.YYYY"
MsgOldNotFound == "Old phone number not found."
MsgContactNotFound == "Contact not found."

----------------------------------------------------------------------------
(* Phone *)

\* the quantifier of the pattern \d{10}
PhoneLen == 10

\* re.fullmatch(r'\d{10}', value)
PhoneMatch(value) ==
  /\ Len(value) = PhoneLen
  /\ \A i \in 1..Len(value) : IsDecimal(value[i])

\* Phone(value): the Phone object, or the ValueError of its constructor
Phone(value) ==
  IF ~PhoneMatch(value)
  THEN Raise("ValueError", MsgPhoneFormat)
  ELSE [status |-> "ok", obj |-> [value |-> value]]

----------------------------------------------------------------------------
(* Values: None, str and datetime values are told apart by their kind, as    *)
(* Python tells them apart by their type.                                     *)

None == [kind |-> "None"]

Str(s) == [kind |-> "str", chars |-> s]

DateTime(y, m, d) == [kind |-> "datetime", year |-> y, month |-> m, day |-> d]

Date(y, m, d) == [kind |-> "date", year |-> y, month |-> m, day |-> d]

----------------------------------------------------------------------------
(* Calendar arithmetic of datetime.date *)

IsLeap(y) == y % 4 = 0 /\ (y % 100 # 0 \/ y % 400 = 0)

DaysInMonth(y, m) ==
  IF m = 2 THEN (IF IsLeap(y) THEN 29 ELSE 28)
  ELSE IF m \in {4, 6, 9, 11} THEN 30 ELSE 31

RECURSIVE DaysBeforeMonth(_, _)
DaysBeforeMonth(y, m) ==
  IF m = 1 THEN 0 ELSE DaysBeforeMonth(y, m - 1) + DaysInMonth(y, m - 1)

\* date.toordinal(): 1 for 0001-01-01
ToOrdinal(d) ==
  LET y1 == d.year - 1
  IN  y1 * 365 + (y1 \div 4) - (y1 \div 100) + (y1 \div 400)
        + DaysBeforeMonth(d.year, d.month) + d.day

\* date.weekday(): Monday is 0, Sunday is 6
Weekday(d) == (ToOrdinal(d) + 6) % 7

\* a - b of two dates, in days
DaysBetween(a, b) == ToOrdinal(a) - ToOrdinal(b)

\* d + timedelta(days=n), n >= 0
RECURSIVE AddDays(_, _)
AddDays(d, n) ==
  IF n = 0 THEN d
  ELSE IF d.day < DaysInMonth(d.year, d.month)
       THEN AddDays([d EXCEPT !.day = @ + 1], n - 1)
       ELSE IF d.month < 12
            THEN AddDays([d EXCEPT !.month = @ + 1, !.day = 1], n - 1)
            ELSE AddDays([d EXCEPT !.year = @ + 1, !.month = 1, !.day = 1], n - 1)

\* d.replace(year=y): the ValueError of a February 29 in a common year
ReplaceYear(d, y) ==
  IF d.day > DaysInMonth(y, d.month)
  THEN Raise("ValueError", "day is out of range for month")
  ELSE [status |-> "ok", value |-> [d EXCEPT !.year = y]]

----------------------------------------------------------------------------
(* datetime.strptime(value, "%d.%m.%Y") *)

\* %d : 3[0-1]|[1-2]\d|0[1-9]|[1-9]| [1-9]
DayMatch(t) ==
  \/ Len(t) = 2 /\ t[1] = 51 /\ t[2] \in {48, 49}
  \/ Len(t) = 2 /\ t[1] \in {49, 50} /\ IsDecimal(t[2])
  \/ Len(t) = 2 /\ t[1] = 48 /\ t[2] \in 49..57
  \/ Len(t) = 1 /\ t[1] \in 49..57
  \/ Len(t) = 2 /\ t[1] = 32 /\ t[2] \in 49..57

\* %m : 1[0-2]|0[1-9]|[1-9]
MonthMatch(t) ==
  \/ Len(t) = 2 /\ t[1] = 49 /\ t[2] \in {48, 49, 50}
  \/ Len(t) = 2 /\ t[1] = 48 /\ t[2] \in 49..57
  \/ Len(t) = 1 /\ t[1] \in 49..57

\* %Y : \d\d\d\d
YearMatch(t) == Len(t) = 4 /\ \A i \in 1..4 : IsDecimal(t[i])

\* int() of a matched group (a leading blank is skipped)
RECURSIVE IntOf(_)
IntOf(t) ==
  IF t = <<>> THEN 0
  ELSE LET c == t[Len(t)]
           rest == IntOf(SubSeq(t, 1, Len(t) - 1))
       IN  IF c = 32 THEN rest ELSE rest * 10 + DigitValue(c)

\* the splits day.month.year of s that the format's pattern matches in full
StrptimeSplits(s) ==
  { p \in (1..2) \X (1..2) :
      /\ Len(s) = p[1] + p[2] + 6
      /\ s[p[1] + 1] = Dot
      /\ s[p[1] + p[2] + 2] = Dot
      /\ DayMatch(SubSeq(s, 1, p[1]))
      /\ MonthMatch(SubSeq(s, p[1] + 2, p[1] + p[2] + 1))
      /\ YearMatch(SubSeq(s, p[1] + p[2] + 3, Len(s))) }

strptime(s) ==
  IF StrptimeSplits(s) = {}
  THEN Raise("ValueError", "time data does not match format")
  ELSE LET p == CHOOSE p \in StrptimeSplits(s) : TRUE
           d == IntOf(SubSeq(s, 1, p[1]))
           m == IntOf(SubSeq(s, p[1] + 2, p[1] + p[2] + 1))
           y == IntOf(SubSeq(s, p[1] + p[2] + 3, Len(s)))
       IN  IF y < 1
           THEN Raise("ValueError", "year is out of range")
           ELSE IF d > DaysInMonth(y, m)
                THEN Raise("ValueError", "day is out of range for month")
                ELSE [status |-> "ok", value |-> DateTime(y, m, d)]

\* %d and %m of strftime: two digits
TwoDigits(n) == <<48 + (n \div 10), 48 + (n % 10)>>

\* %Y of strftime (the C library's): the year in decimal, not padded
RECURSIVE DecimalString(_)
DecimalString(n) ==
  IF n < 10 THEN <<48 + n>>
  ELSE DecimalString(n \div 10) \o <<48 + (n % 10)>>

\* datetime.strftime("%d.%m.%Y")
strftime(dt) ==
  TwoDigits(dt.day) \o <<Dot>> \o TwoDigits(dt.month) \o <<Dot>>
    \o DecimalString(dt.year)

----------------------------------------------------------------------------
(* Field, Birthday *)

\* Field.__init__: self.value = value
Field_init(self, value) == [self EXCEPT !.value = value]

\* Birthday(value): the parsed datetime is assigned to self.value and then
\* Field.__init__ assigns the str given over it
Birthday(value) ==
  LET parsed == strptime(value)
  IN  IF parsed.status = "raise"
      THEN Raise("ValueError", MsgDateFormat)
      ELSE [status |-> "ok",
            obj |-> Field_init([value |-> parsed.value], Str(value))]

----------------------------------------------------------------------------
(* Record *)

\* Record(name)
Record_init(name) ==
  [name |-> [value |-> name], phones |-> <<>>, birthday |-> None]

\* Record.add_phone with a check for a phone the record already has
Record_add_phone_dedup(self, phone) ==
  LET p == Phone(phone)
  IN  IF p.status = "raise" THEN p
      ELSE IF \E i \in 1..Len(self.phones) : self.phones[i].value = phone
      THEN [status |-> "ok", self |-> self]
      ELSE [status |-> "ok", self |-> [self EXCEPT !.phones = Append(@, p.obj)]]

\* Record.add_phone: self after the call, or the exception
Record_add_phone(self, phone) ==
  LET p == Phone(phone)
  IN  IF p.status = "raise" THEN p
      ELSE [status |-> "ok", self |-> [self EXCEPT !.phones = Append(@, p.obj)]]

\* Record.change_phone without the return that ends the loop at the first match
Record_change_phone_all(self, old_phone, new_phone) ==
  IF ~PhoneMatch(new_phone)
  THEN Raise("ValueError", MsgPhoneFormat)
  ELSE IF \A i \in 1..Len(self.phones) : self.phones[i].value # old_phone
  THEN Raise("ValueError", MsgOldNotFound)
  ELSE [status |-> "ok",
        self |-> [self EXCEPT !.phones =
                    [i \in 1..Len(self.phones) |->
                       IF self.phones[i].value = old_phone
                       THEN [value |-> new_phone] ELSE self.phones[i]]]]

\* Record.change_phone
Record_change_phone(self, old_phone, new_phone) ==
  IF ~PhoneMatch(new_phone)
  THEN Raise("ValueError", MsgPhoneFormat)
  ELSE LET hits == { i \in 1..Len(self.phones) : self.phones[i].value = old_phone }
       IN  IF hits = {}
           THEN Raise("ValueError", MsgOldNotFound)
           ELSE LET i == CHOOSE i \in hits : \A j \in hits : i <= j
                IN  [status |-> "ok",
                     self |-> [self EXCEPT !.phones[i].value = new_phone]]

\* Record.add_birthday
Record_add_birthday(self, birthday) ==
  LET b == Birthday(birthday)
  IN  IF b.status = "raise" THEN b
      ELSE [status |-> "ok", self |-> [self EXCEPT !.birthday = b.obj]]

\* value.strftime('%d.%m.%Y') of a birthday's value: a str has no strftime
value_strftime(value) ==
  IF value.kind = "str"
  THEN Raise("AttributeError", "'str' object has no attribute 'strftime'")
  ELSE [status |-> "ok", text |-> Str(strftime(value))]

\* Record.show_birthday
Record_show_birthday(self) ==
  IF self.birthday # None
  THEN value_strftime(self.birthday.value)
  ELSE [status |-> "ok", text |-> None]

\* Record.show_phones
Record_show_phones(self) == [i \in 1..Len(self.phones) |-> self.phones[i].value]

----------------------------------------------------------------------------
(* AddressBook: self.records is a dict, here the sequence of its items in    *)
(* insertion order.                                                          *)

KeyIndex(recs, key) ==
  IF \E i \in 1..Len(recs) : recs[i].key = key
  THEN CHOOSE i \in 1..Len(recs) : recs[i].key = key
  ELSE 0

\* self.records[key] = record
SetItem(recs, key, record) ==
  IF KeyIndex(recs, key) = 0
  THEN Append(recs, [key |-> key, rec |-> record])
  ELSE [recs EXCEPT ![KeyIndex(recs, key)].rec = record]

\* AddressBook.add_record
AddressBook_add_record(recs, record) == SetItem(recs, record.name.value, record)

\* AddressBook.find
AddressBook_find(recs, name) ==
  IF KeyIndex(recs, name) = 0 THEN None ELSE recs[KeyIndex(recs, name)].rec

\* find_next_weekday
find_next_weekday(start_date, weekday) ==
  LET d0 == weekday - Weekday(start_date)
      days_ahead == IF d0 <= 0 THEN d0 + 7 ELSE d0
  IN  AddDays(start_date, days_ahead)

\* adjust_for_weekend with > 5 for >= 5: a Saturday is left where it is
adjust_for_weekend_sunday_only(birthday) ==
  IF Weekday(birthday) > 5
  THEN find_next_weekday(birthday, 0)
  ELSE birthday

\* adjust_for_weekend
adjust_for_weekend(birthday) ==
  IF Weekday(birthday) >= 5
  THEN find_next_weekday(birthday, 0)
  ELSE birthday

\* value.replace(year=y).date() of a birthday's value: str.replace takes no
\* keyword argument
value_replace_year(value, y) ==
  IF value.kind = "str"
  THEN Raise("TypeError", "str.replace() takes no keyword arguments")
  ELSE LET r == ReplaceYear(value, y)
       IN  IF r.status = "raise" THEN r
           ELSE [status |-> "ok",
                 value |-> Date(r.value.year, r.value.month, r.value.day)]

\* the body of the loop of get_upcoming_birthdays for one record: the entries
\* it appends, or the exception
upcoming_of(record, today) ==
  IF record.birthday = None
  THEN [status |-> "ok", found |-> <<>>]
  ELSE LET r1 == value_replace_year(record.birthday.value, today.year)
       IN  IF r1.status = "raise" THEN r1
           ELSE LET r2 == IF ToOrdinal(r1.value) < ToOrdinal(today)
                          THEN ReplaceYear(r1.value, today.year + 1)
                          ELSE r1
                IN  IF r2.status = "raise" THEN r2
                    ELSE LET birthday_this_year == r2.value
                             days == DaysBetween(birthday_this_year, today)
                         IN  IF 0 <= days /\ days <= 7
                             THEN [status |-> "ok",
                                   found |-> << [name |-> record.name.value,
                                                 congratulation_date |->
                                                   adjust_for_weekend(birthday_this_year)] >>]
                             ELSE [status |-> "ok", found |-> <<>>]

\* AddressBook.get_upcoming_birthdays, the records from the i-th on
RECURSIVE upcoming_from(_, _, _, _)
upcoming_from(recs, today, i, acc) ==
  IF i > Len(recs)
  THEN [status |-> "ok", list |-> acc]
  ELSE LET r == upcoming_of(recs[i].rec, today)
       IN  IF r.status = "raise" THEN r
           ELSE upcoming_from(recs, today, i + 1, acc \o r.found)

get_upcoming_birthdays(recs, today) == upcoming_from(recs, today, 1, <<>>)

\* AddressBook.serialize: pickle.dump of self.records into the file
serialize(recs) == [exists |-> TRUE, data |-> recs]

NoFile == [exists |-> FALSE, data |-> <<>>]

\* AddressBook.deserialize: FileNotFoundError when there is no file
deserialize(f) ==
  IF f.exists
  THEN [status |-> "ok", records |-> f.data]
  ELSE Raise("FileNotFoundError", "No such file or directory")

----------------------------------------------------------------------------
(* The command handlers.  A handler's result is [out, records]: what it      *)
(* returns or raises, and the address book's records after it.               *)

\* the decorator input_error: IndexError, KeyError and ValueError are caught
\* and their text is returned; any other exception passes through
input_error(res) ==
  IF res.out.status = "raise" /\ res.out.exc \in {"IndexError", "KeyError", "ValueError"}
  THEN [res EXCEPT !.out = [status |-> "ok", caught |-> res.out.exc,
                            msg |-> res.out.msg, data |-> <<>>]]
  ELSE res

\* name, phone = args and the like, with more words than names
Unpack == Raise("ValueError", "too many values to unpack")

add_contact_handler(args, recs) ==
  IF Len(args) < 2
  THEN [out |-> Raise("IndexError", "Not enough arguments for add command"),
        records |-> recs]
  ELSE IF Len(args) # 2
  THEN [out |-> Unpack, records |-> recs]
  ELSE LET name == args[1]
           phone == args[2]
           found == AddressBook_find(recs, name)
           record == IF found = None THEN Record_init(name) ELSE found
           recs1 == IF found = None THEN AddressBook_add_record(recs, record) ELSE recs
           message == IF found = None THEN "Contact added." ELSE "Contact updated."
       IN  IF phone # <<>>
           THEN LET r == Record_add_phone(record, phone)
                IN  IF r.status = "raise"
                    THEN [out |-> r, records |-> recs1]
                    ELSE [out |-> Return(message, <<>>),
                          records |-> SetItem(recs1, name, r.self)]
           ELSE [out |-> Return(message, <<>>), records |-> recs1]

add_contact(args, recs) == input_error(add_contact_handler(args, recs))

change_phone_handler(args, recs) ==
  IF Len(args) < 3
  THEN [out |-> Raise("IndexError", "Not enough arguments for change command"),
        records |-> recs]
  ELSE IF Len(args) # 3
  THEN [out |-> Unpack, records |-> recs]
  ELSE LET name == args[1]
           record == AddressBook_find(recs, name)
       IN  IF record # None
           THEN LET r == Record_change_phone(record, args[2], args[3])
                IN  IF r.status = "raise"
                    THEN [out |-> r, records |-> recs]
                    ELSE [out |-> Return("Phone number changed.", <<>>),
                          records |-> SetItem(recs, name, r.self)]
           ELSE [out |-> Return(MsgContactNotFound, <<>>), records |-> recs]

change_phone(args, recs) == input_error(change_phone_handler(args, recs))

show_phone_handler(args, recs) ==
  IF Len(args) < 1
  THEN [out |-> Raise("IndexError", "Not enough arguments for phone command"),
        records |-> recs]
  ELSE LET record == AddressBook_find(recs, args[1])
       IN  IF record # None
           THEN LET phones == Record_show_phones(record)
                IN  [out |-> IF phones # <<>>
                             THEN Return("Phones for name", phones)
                             ELSE Return("No phone numbers.", <<>>),
                     records |-> recs]
           ELSE [out |-> Return(MsgContactNotFound, <<>>), records |-> recs]

show_phone(args, recs) == input_error(show_phone_handler(args, recs))

\* the line of show_all_contacts for one record, or the exception
contact_info(record) ==
  IF record.birthday # None
  THEN LET t == Record_show_birthday(record)
       IN  IF t.status = "raise" THEN t
           ELSE [status |-> "ok",
                 info |-> [name |-> record.name.value,
                           phones |-> Record_show_phones(record),
                           birthday |-> t.text]]
  ELSE [status |-> "ok",
        info |-> [name |-> record.name.value,
                  phones |-> Record_show_phones(record),
                  birthday |-> None]]

show_all_contacts_handler(args, recs) ==
  IF recs = <<>>
  THEN [out |-> Return("Address book is empty.", <<>>), records |-> recs]
  ELSE LET bad == { i \in 1..Len(recs) : contact_info(recs[i].rec).status = "raise" }
       IN  IF bad # {}
           THEN [out |-> contact_info(recs[CHOOSE i \in bad : \A j \in bad : i <= j].rec),
                 records |-> recs]
           ELSE [out |-> Return("contacts",
                                [i \in 1..Len(recs) |-> contact_info(recs[i].rec).info]),
                 records |-> recs]

show_all_contacts(args, recs) == input_error(show_all_contacts_handler(args, recs))

add_birthday_handler(args, recs) ==
  IF Len(args) < 2
  THEN [out |-> Raise("IndexError", "Not enough arguments for add-birthday command"),
        records |-> recs]
  ELSE IF Len(args) # 2
  THEN [out |-> Unpack, records |-> recs]
  ELSE LET name == args[1]
           record == AddressBook_find(recs, name)
       IN  IF record # None
           THEN LET r == Record_add_birthday(record, args[2])
                IN  IF r.status = "raise"
                    THEN [out |-> r, records |-> recs]
                    ELSE [out |-> Return("Birthday added/updated.", <<>>),
                          records |-> SetItem(recs, name, r.self)]
           ELSE [out |-> Return(MsgContactNotFound, <<>>), records |-> recs]

add_birthday(args, recs) == input_error(add_birthday_handler(args, recs))

show_birthday_handler(args, recs) ==
  IF Len(args) < 1
  THEN [out |-> Return("Please provide a name.", <<>>), records |-> recs]
  ELSE LET record == AddressBook_find(recs, args[1])
       IN  IF record # None
           THEN IF record.birthday # None
                THEN LET t == value_strftime(record.birthday.value)
                     IN  [out |-> IF t.status = "raise" THEN t
                                  ELSE Return("Birthday for name is", <<t.text>>),
                          records |-> recs]
                ELSE [out |-> Return("Birthday for name is not set.", <<>>),
                      records |-> recs]
           ELSE [out |-> Return(MsgContactNotFound, <<>>), records |-> recs]

show_birthday(args, recs) == input_error(show_birthday_handler(args, recs))

\* birthdays: today is what date.today() returns inside the query
birthdays_handler(args, recs, today) ==
  LET r == get_upcoming_birthdays(recs, today)
  IN  IF r.status = "raise"
      THEN [out |-> r, records |-> recs]
      ELSE [out |-> IF r.list = <<>>
                    THEN Return("No upcoming birthdays in the next week.", <<>>)
                    ELSE Return("birthdays", r.list),
            records |-> recs]

birthdays(args, recs, today) == input_error(birthdays_handler(args, recs, today))

----------------------------------------------------------------------------
(* main: the command loop *)

\* parse_input: the line is the sequence of its words; a line without words
\* has no parts[0]
parse_input(user_input) ==
  IF user_input = <<>>
  THEN Raise("IndexError", "list index out of range")
  ELSE [status |-> "ok", command |-> Head(user_input), args |-> Tail(user_input)]

----------------------------------------------------------------------------
(* Inputs *)

\* "John", "Bob"
T_John == <<74, 111, 104, 110>>
T_Bob == <<66, 111, 98>>

\* "1234567890", "0987654321"
P_A == <<49, 50, 51, 52, 53, 54, 55, 56, 57, 48>>
P_B == <<48, 57, 56, 55, 54, 53, 52, 51, 50, 49>>
\* ten ARABIC-INDIC digits, U+0661 .. U+0669, U+0660
P_U == <<1633, 1634, 1635, 1636, 1637, 1638, 1639, 1640, 1641, 1632>>
\* "123456789"
P_short == <<49, 50, 51, 52, 53, 54, 55, 56, 57>>

\* "10.06.1990", and "31.04.1990" that is no date
D_ok == <<49, 48, 46, 48, 54, 46, 49, 57, 57, 48>>
D_bad == <<51, 49, 46, 48, 52, 46, 49, 57, 57, 48>>

\* the lines typed: every form for John, fewer for Bob, and lines with too
\* few or too many words
AddArgs ==
  { <<T_John, p>> : p \in {P_A, P_B, P_short} }
    \cup { <<T_Bob, P_U>>, <<T_Bob, P_short>> }
    \cup { <<>>, <<T_John>>, <<T_John, P_A, P_B>> }

ChangeArgs ==
  { <<T_John, o, p>> : o \in {P_A, P_B, P_short}, p \in {P_A, P_B, P_short} }
    \cup { <<T_Bob, P_U, P_A>> }
    \cup { <<T_John, P_A>>, <<T_John, P_A, P_B, P_A>> }

PhoneArgs == { <<T_John>>, <<T_Bob>>, <<>> }

BirthdayArgs ==
  { <<T_John, D_ok>>, <<T_John, D_bad>>, <<T_Bob, D_ok>> }
    \cup { <<T_John>>, <<T_John, D_ok, D_ok>> }

ShowBirthdayArgs == { <<T_John>>, <<T_Bob>>, <<>> }

BirthdaysArgs == { <<T_John>>, <<>> }

\* the lines typed in the runs of SpecRuns
RunAddArgs == { <<T_John, P_A>>, <<T_John, P_B>>, <<T_John, P_short>> }

RunChangeArgs == { <<T_John, P_A, P_B>> }

RunBirthdayArgs == { <<T_John, D_ok>> }

\* the years date.today() is drawn from
Years == 2024..(2023 + NumYears)

AllDays ==
  UNION { UNION { { Date(y, m, d) : d \in 1..DaysInMonth(y, m) } : m \in 1..12 } : y \in Years }

\* the days from which a birthday on month m, day d is at most two days
\* past or nine days ahead, and every day for a February 29
DaysNear(m, d) ==
  { t \in AllDays :
      \/ m = 2 /\ d = 29
      \/ \E y \in {t.year, t.year + 1} :
           /\ d <= DaysInMonth(y, m)
           /\ ToOrdinal(Date(y, m, d)) - ToOrdinal(t) \in (-2)..9 }

\* 2024-06-10, a Monday, and 2024-12-28
SomeDays == { Date(2024, 6, 10), Date(2024, 12, 28) }

\* the collections of one record whose birthday holds the datetime that
\* strptime parses: every day of 1992, a leap year
DatedBooks ==
  { << [key |-> T_John,
        rec |-> [Record_init(T_John) EXCEPT
                   !.birthday = [value |-> DateTime(1992, m, d)]]] >> :
      <<m, d>> \in { p \in (1..12) \X (1..31) : p[2] <= DaysInMonth(1992, p[1]) } }

----------------------------------------------------------------------------
(* The process *)

NoCommand == [cmd |-> "", args |-> <<>>, today |-> None, out |-> Return("", <<>>)]

Init ==
  /\ records = <<>>
  /\ file = NoFile
  /\ pc = "start"
  /\ last = NoCommand

\* main, before the loop: the book is loaded, or is new when no file exists
Start(from) ==
  /\ pc \in from
  /\ LET r == deserialize(file)
     IN  /\ records' = IF r.status = "ok" THEN r.records ELSE <<>>
         /\ last' = [NoCommand EXCEPT !.cmd = "start",
                       !.out = Return(IF r.status = "ok"
                                      THEN "Address book loaded successfully."
                                      ELSE "No existing address book found.", <<>>)]
  /\ pc' = "running"
  /\ UNCHANGED file

\* the loop of main after a command's branch has run: the result is
\* printed and the loop goes on; an exception that the branch let through
\* leaves main and ends the process
Loop(cmd, args, today, res) ==
  /\ records' = res.records
  /\ last' = [cmd |-> cmd, args |-> args, today |-> today, out |-> res.out]
  /\ pc' = IF res.out.status = "raise" THEN "crashed" ELSE "running"
  /\ UNCHANGED file

\* the record named has room for one more phone
CanGrow(args) ==
  IF Len(args) # 2 THEN TRUE
  ELSE IF AddressBook_find(records, args[1]) = None THEN TRUE
  ELSE Len(AddressBook_find(records, args[1]).phones) < MaxPhones

\* command "add"
Add(inputs) ==
  /\ pc = "running"
  /\ \E args \in inputs :
       CanGrow(args) /\ Loop("add", args, None, add_contact(args, records))

\* command "change"
Change(inputs) ==
  /\ pc = "running"
  /\ \E args \in inputs : Loop("change", args, None, change_phone(args, records))

\* command "phone"
ShowPhone(inputs) ==
  /\ pc = "running"
  /\ \E args \in inputs : Loop("phone", args, None, show_phone(args, records))

\* command "all"
ShowAll ==
  /\ pc = "running"
  /\ Loop("all", <<>>, None, show_all_contacts(<<>>, records))

\* command "add-birthday"
AddBirthday(inputs) ==
  /\ pc = "running"
  /\ \E args \in inputs :
       Loop("add-birthday", args, None, add_birthday(args, records))

\* command "show-birthday"
ShowBirthday(inputs) ==
  /\ pc = "running"
  /\ \E args \in inputs :
       Loop("show-birthday", args, None,
            IF args = <<>>
            THEN [out |-> Return("Please provide a name.", <<>>), records |-> records]
            ELSE show_birthday(args, records))

\* command "birthdays"; today is what date.today() returns
Birthdays(inputs, days) ==
  /\ pc = "running"
  /\ \E args \in inputs : \E today \in days :
       Loop("birthdays", args, today,
            IF Len(args) # 1
            THEN [out |-> Return("Please provide a name.", <<>>), records |-> records]
            ELSE birthdays(args, records, today))

\* command "hello"
Hello ==
  /\ pc = "running"
  /\ Loop("hello", <<>>, None,
          [out |-> Return("How can I help you?", <<>>), records |-> records])

\* any other command word
InvalidCommand ==
  /\ pc = "running"
  /\ Loop("help", <<>>, None,
          [out |-> Return("Invalid command.", <<>>), records |-> records])

\* a line without words: parse_input raises
EmptyLine ==
  /\ pc = "running"
  /\ Loop("", <<>>, None, [out |-> parse_input(<<>>), records |-> records])

\* commands "close" and "exit": the book is saved and the loop left
Close ==
  /\ pc = "running"
  /\ parse_input(<<"close">>).command \in {"close", "exit"}
  /\ file' = serialize(records)
  /\ last' = [NoCommand EXCEPT !.cmd = "close", !.out = Return("Good bye!", <<>>)]
  /\ pc' = "exited"
  /\ UNCHANGED records

Next ==
  \/ Start({"start"})
  \/ Add(AddArgs)
  \/ Change(ChangeArgs)
  \/ ShowPhone(PhoneArgs)
  \/ ShowAll
  \/ AddBirthday(BirthdayArgs)
  \/ ShowBirthday(ShowBirthdayArgs)
  \/ Birthdays(BirthdaysArgs, SomeDays)
  \/ Hello
  \/ InvalidCommand
  \/ EmptyLine
  \/ Close

Spec == Init /\ [][Next]_vars


\* several runs of the process, one after the other, over one file
NextRuns ==
  \/ Start({"start", "exited", "crashed"})
  \/ Add(RunAddArgs)
  \/ Change(RunChangeArgs)
  \/ ShowPhone({<<T_John>>})
  \/ ShowAll
  \/ AddBirthday(RunBirthdayArgs)
  \/ ShowBirthday({<<T_John>>})
  \/ Birthdays({<<T_John>>}, {Date(2024, 6, 10)})
  \/ Hello
  \/ InvalidCommand
  \/ EmptyLine
  \/ Close

SpecRuns == Init /\ [][NextRuns]_vars

\* the upcoming-birthday query, asked once, over a birthday that holds a
\* datetime, on the days of the years that are near the birthday
InitDates ==
  /\ records \in DatedBooks
  /\ file = NoFile
  /\ pc = "running"
  /\ last = NoCommand

NextDates ==
  /\ last = NoCommand
  /\ Birthdays({<<T_John>>},
               DaysNear(records[1].rec.birthday.value.month,
                        records[1].rec.birthday.value.day))

SpecDates == InitDates /\ [][NextDates]_vars


----------------------------------------------------------------------------
(* What the specification says, in the terms of the model *)

\* a phone as the specification defines it: exactly 10 ASCII digits
SpecPhone(t) == Len(t) = 10 /\ \A i \in 1..Len(t) : IsAsciiDigit(t[i])

\* the specification's next occurrence of a birthday on month m, day d: in
\* today's year, or in the year after when that date is before today
NextOccurrence(m, d, today) ==
  IF ToOrdinal(Date(today.year, m, d)) < ToOrdinal(today)
  THEN Date(today.year + 1, m, d)
  ELSE Date(today.year, m, d)

DaysAhead(m, d, today) == ToOrdinal(NextOccurrence(m, d, today)) - ToOrdinal(today)

\* the month and day a record's birthday was set to
BirthdayOf(rec) ==
  IF rec.birthday.value.kind = "str"
  THEN strptime(rec.birthday.value.chars).value
  ELSE rec.birthday.value

\* the command was answered, not ended by an exception
Answered(l) == l.out.status = "ok"

\* the command was accepted: answered, and not with an error's text
Accepted(l) ==
  /\ l.out.status = "ok"
  /\ l.out.caught = ""
  /\ l.out.msg # MsgContactNotFound

\* the command was rejected with an error's text
Rejected(l) ==
  /\ l.out.status = "ok"
  /\ (l.out.caught # "" \/ l.out.msg = MsgContactNotFound)

\* C1: the upcoming-birthday query returns an entry for a record if and only
\* if the record has a birthday set and its next occurrence is 0 to 7 days
\* ahead of today.
C1_Claim ==
  (last.cmd = "birthdays" /\ Len(last.args) = 1) =>
    /\ Answered(last)
    /\ last.out.caught = ""
    /\ \A i \in 1..Len(records) :
         (\E k \in 1..Len(last.out.data) : last.out.data[k].name = records[i].key)
           <=> /\ records[i].rec.birthday # None
               /\ DaysAhead(BirthdayOf(records[i].rec).month,
                            BirthdayOf(records[i].rec).day, last.today) \in 0..7

\* the date the specification congratulates on: the next occurrence, or the
\* Monday after it when it is a Saturday (two days on) or a Sunday (one day on)
ExpectedCongratulation(n) ==
  IF Weekday(n) = 5 THEN ToOrdinal(n) + 2
  ELSE IF Weekday(n) = 6 THEN ToOrdinal(n) + 1
  ELSE ToOrdinal(n)

Operations ==
  {"add", "change", "add-birthday", "show-birthday", "phone", "all", "birthdays"}

\* C3: every operation either returns a successful result or fails with an
\* error that the calling layer catches and renders as text; no operation
\* ends the process with an uncaught error.
C3_Claim == (last.cmd \in Operations) => (Answered(last) /\ pc # "crashed")

\* changePhone(old, new) with a valid new phone replaces the value at the
\* first position holding old and leaves the length and every other position
\* unchanged; when no position holds old it fails with the not-found error
\* (and changes nothing).
C4_Step ==
  (/\ last'.cmd = "change"
   /\ Len(last'.args) = 3
   /\ AddressBook_find(records, last'.args[1]) # None
   /\ SpecPhone(last'.args[3])) =>
    LET name == last'.args[1]
        old == last'.args[2]
        new == last'.args[3]
        before == AddressBook_find(records, name)
        after == AddressBook_find(records', name)
        hits == { i \in 1..Len(before.phones) : before.phones[i].value = old }
    IN  IF hits = {}
        THEN /\ last'.out.status = "ok"
             /\ last'.out.caught = "ValueError"
             /\ last'.out.msg = MsgOldNotFound
             /\ records' = records
        ELSE /\ Accepted(last')
             /\ Len(after.phones) = Len(before.phones)
             /\ \A i \in 1..Len(before.phones) :
                  after.phones[i].value =
                    IF i \in hits /\ (\A j \in hits : i <= j)
                    THEN new ELSE before.phones[i].value
             /\ after.name = before.name
             /\ after.birthday = before.birthday
             /\ Len(records') = Len(records)
             /\ \A j \in 1..Len(records) :
                  /\ records'[j].key = records[j].key
                  /\ records[j].key # name => records'[j] = records[j]

\* C4: every step of the program is such a step: a change with a valid new
\* phone replaces the first match only, or fails with the not-found error.
C4_Theorem == [][C4_Step]_vars

\* a change has replaced the first of two equal phones and kept the second
C4_Witness ==
  /\ last.cmd = "change"
  /\ Len(last.args) = 3
  /\ Accepted(last)
  /\ SpecPhone(last.args[3])
  /\ last.args[2] # last.args[3]
  /\ LET r == AddressBook_find(records, last.args[1])
     IN  /\ Len(r.phones) = 2
         /\ r.phones[1].value = last.args[3]
         /\ r.phones[2].value = last.args[2]

\* C5: constructing a phone succeeds and stores the identical string if and
\* only if the string is exactly 10 ASCII decimal digits; every other string
\* fails with the validation error.
C5_Claim ==
  (last.cmd = "add" /\ Len(last.args) = 2) =>
    LET r == AddressBook_find(records, last.args[1])
    IN  IF SpecPhone(last.args[2])
        THEN /\ Accepted(last)
             /\ r.phones[Len(r.phones)].value = last.args[2]
        ELSE /\ last.out.status = "ok"
             /\ last.out.caught = "ValueError"
             /\ last.out.msg = MsgPhoneFormat

\* the string is a real calendar date written DD.MM.YYYY
SpecDate(t) ==
  /\ Len(t) = 10
  /\ t[3] = Dot /\ t[6] = Dot
  /\ \A i \in {1, 2, 4, 5, 7, 8, 9, 10} : IsAsciiDigit(t[i])
  /\ LET d == IntOf(SubSeq(t, 1, 2))
         m == IntOf(SubSeq(t, 4, 5))
         y == IntOf(SubSeq(t, 7, 10))
     IN  y >= 1 /\ m \in 1..12 /\ d >= 1 /\ d <= DaysInMonth(y, m)

\* setting the birthday to a real date s written DD.MM.YYYY and then
\* asking for the birthday's text returns exactly s; a string that is no
\* such date makes setting the birthday fail with the validation error.
C6_Step ==
  /\ (/\ last.cmd = "add-birthday" /\ Len(last.args) = 2 /\ Accepted(last)
      /\ SpecDate(last.args[2])
      /\ last'.cmd = "show-birthday" /\ last'.args = <<last.args[1]>>)
       => (Answered(last') /\ last'.out.data = <<Str(last.args[2])>>)
  /\ (/\ last'.cmd = "add-birthday" /\ Len(last'.args) = 2
      /\ AddressBook_find(records, last'.args[1]) # None
      /\ ~SpecDate(last'.args[2]))
       => (/\ last'.out.status = "ok"
           /\ last'.out.caught = "ValueError"
           /\ last'.out.msg = MsgDateFormat)

\* C6: in every step, the birthday's text asked for after setting a real date
\* is the string that was set, and a string that is no date is rejected.
C6_Claim == [][C6_Step]_vars

\* an add with a valid phone is accepted.  An add for a name that exists never
\* replaces the record: accepted, it appends the phone at the end of the
\* record's phones and leaves the earlier phones, the birthday and every other
\* record unchanged (rejected, it leaves all of it unchanged); an add that is
\* accepted for a new name creates a record whose phones are exactly the one
\* phone given.
C7_Step ==
  (last'.cmd = "add" /\ Len(last'.args) = 2) =>
    LET name == last'.args[1]
        phone == last'.args[2]
        before == AddressBook_find(records, name)
        after == AddressBook_find(records', name)
    IN  IF before # None
        THEN /\ Len(records') = Len(records)
             /\ \A j \in 1..Len(records) :
                  /\ records'[j].key = records[j].key
                  /\ records[j].key # name => records'[j] = records[j]
             /\ after.name = before.name
             /\ after.birthday = before.birthday
             /\ SpecPhone(phone) => Accepted(last')
             /\ after.phones = IF Accepted(last')
                               THEN before.phones \o << [value |-> phone] >>
                               ELSE before.phones
        ELSE /\ SpecPhone(phone) => Accepted(last')
             /\ Accepted(last') =>
               records' = records \o
                 << [key |-> name,
                     rec |-> [name |-> [value |-> name],
                              phones |-> << [value |-> phone] >>,
                              birthday |-> None]] >>

C8_Step ==
  (pc \in {"exited", "crashed"} /\ pc' = "running") => records' = records

\* C8: every run that follows a run starts with the records that run ended
\* with.
C8_Claim == [][C8_Step]_vars

\* a command that is rejected with an error leaves the collection exactly
\* as it was before the command.
C9_Step == Rejected(last') => records' = records

\* C9: no step that rejects a command changes the collection.
C9_Claim == [][C9_Step]_vars

\* C10: every phone stored in every record is a string of exactly 10 decimal
\* digits, and every record is stored under a key equal to its own name.
C10_Claim ==
  \A i \in 1..Len(records) :
    /\ records[i].key = records[i].rec.name.value
    /\ \A k \in 1..Len(records[i].rec.phones) :
         SpecPhone(records[i].rec.phones[k].value)

====
